---- MODULE Spec2Model ----
(***************************************************************************)
(* Model of cmyui/staticserv (src/main.py): the ShareX upload endpoint,    *)
(* the static retrieval endpoint, the file-signature registry and the      *)
(* ratelimit decorator.                                                     *)
(*                                                                          *)
(* Conventions.  Byte strings are sequences of integers 0..255.  Text that *)
(* the code takes apart (file names, the User-Agent, Content-Length) is a  *)
(* sequence of one-character strings; text that is only compared (MIME     *)
(* types, tokens) is a TLA+ string.  Python's None is the empty sequence   *)
(* and a present value v is <<v>>.                                          *)
(***************************************************************************)
EXTENDS Integers, Sequences, FiniteSets, TLC

None == <<>>
Some(v) == <<v>>
Val(o) == o[1]

Min(a, b) == IF a < b THEN a ELSE b
Max(a, b) == IF a > b THEN a ELSE b

\* body[lo:hi] for 0 <= lo <= hi (Python slicing clamps at the end)
Slice(body, lo, hi) == SubSeq(body, lo + 1, Min(hi, Len(body)))

\* body[-n:] for n > 0 (the whole buffer when it is shorter than n)
LastBytes(body, n) == SubSeq(body, Max(1, Len(body) - n + 1), Len(body))

EmptyFn == [x \in {} |-> x]

(***************************************************************************)
(* Supported filetype checks.                                               *)
(***************************************************************************)
PNG_MAGIC == <<137, 80, 78, 71, 13, 10, 26, 10>>       \* \x89PNG\r\n\x1a\n
PNG_IEND == <<73, 69, 78, 68, 174, 66, 96, 130>>       \* IEND\xae\x42\x60\x82

png_condition(body) ==
    /\ Slice(body, 0, 8) = PNG_MAGIC
    /\ LastBytes(body, 8) = PNG_IEND

jpeg_condition(body) ==
    \/ /\ Slice(body, 0, 4) = <<255, 216, 255, 224>>
       /\ Slice(body, 6, 11) = <<74, 70, 73, 70, 0>>        \* JFIF\0
    \/ /\ Slice(body, 0, 4) = <<255, 216, 255, 225>>
       /\ Slice(body, 6, 11) = <<69, 120, 105, 102, 0>>     \* Exif\0
    \/ /\ Slice(body, 0, 4) = <<255, 216, 255, 232>>
       /\ Slice(body, 6, 12) = <<83, 80, 73, 70, 70, 0>>    \* SPIFF\0

gif_condition(body) ==
    /\ Slice(body, 0, 6) \in { <<71, 73, 70, 56, 55, 97>>,  \* GIF87a
                               <<71, 73, 70, 56, 57, 97>> } \* GIF89a
    /\ LastBytes(body, 2) = <<0, 59>>

bmp_condition(body) == Slice(body, 0, 2) = <<66, 77>>

MP4_TYPES == {
    <<97, 118, 99, 49>>,   \* avc1
    <<105, 115, 111, 50>>, \* iso2
    <<105, 115, 111, 109>>, \* isom
    <<109, 109, 112, 52>>, \* mmp4
    <<109, 112, 52, 49>>,  \* mp41
    <<109, 112, 52, 50>>,  \* mp42
    <<109, 112, 55, 49>>,  \* mp71
    <<109, 115, 110, 118>>, \* msnv
    <<110, 100, 97, 115>>, \* ndas
    <<110, 100, 115, 99>>, \* ndsc
    <<110, 100, 115, 104>>, \* ndsh
    <<110, 100, 115, 109>>, \* ndsm
    <<110, 100, 115, 112>>, \* ndsp
    <<110, 100, 115, 115>>, \* ndss
    <<110, 100, 120, 99>>, \* ndxc
    <<110, 100, 120, 104>>, \* ndxh
    <<110, 100, 120, 109>>, \* ndxm
    <<110, 100, 120, 112>>, \* ndxp
    <<110, 100, 120, 115>> } \* ndxs

mp4_condition(body) ==
    /\ Slice(body, 4, 8) = <<102, 116, 121, 112>>          \* ftyp
    /\ Slice(body, 8, 12) \in MP4_TYPES

webm_condition(body) == Slice(body, 0, 4) = <<26, 69, 223, 163>>

psd_condition(body) == Slice(body, 0, 4) = <<56, 66, 80, 83>>   \* 8BPS

hdr_condition(body) ==
    Slice(body, 0, 11) = <<35, 63, 82, 65, 68, 73, 65, 78, 67, 69, 10>> \* #?RADIANCE\n

\* The registry in registration order: (mime_type, extension).
SUPPORTED_FILES == <<
    [mime_type |-> "image/png", extension |-> <<"p", "n", "g">>],
    [mime_type |-> "image/jpeg", extension |-> <<"j", "p", "e", "g">>],
    [mime_type |-> "image/gif", extension |-> <<"g", "i", "f">>],
    [mime_type |-> "image/bmp", extension |-> <<"b", "m", "p">>],
    [mime_type |-> "video/mp4", extension |-> <<"m", "p", "4">>],
    [mime_type |-> "video/webm", extension |-> <<"w", "e", "b", "m">>],
    [mime_type |-> "image/vnd.adobe.photoshop", extension |-> <<"p", "s", "d">>],
    [mime_type |-> "image/vnd.radiance", extension |-> <<"h", "d", "r">>] >>

RegisteredMimes == { SUPPORTED_FILES[i].mime_type : i \in DOMAIN SUPPORTED_FILES }

\* SUPPORTED_FILES[mime_type]
filetype_of(mime_type) ==
    SUPPORTED_FILES[CHOOSE i \in DOMAIN SUPPORTED_FILES :
                        SUPPORTED_FILES[i].mime_type = mime_type]

\* SUPPORTED_FILES[mime_type]['condition'](body)
condition(mime_type, body) ==
    CASE mime_type = "image/png" -> png_condition(body)
      [] mime_type = "image/jpeg" -> jpeg_condition(body)
      [] mime_type = "image/gif" -> gif_condition(body)
      [] mime_type = "image/bmp" -> bmp_condition(body)
      [] mime_type = "video/mp4" -> mp4_condition(body)
      [] mime_type = "video/webm" -> webm_condition(body)
      [] mime_type = "image/vnd.adobe.photoshop" -> psd_condition(body)
      [] mime_type = "image/vnd.radiance" -> hdr_condition(body)

(***************************************************************************)
(* Text helpers.                                                            *)
(***************************************************************************)
DigitChars == <<"0", "1", "2", "3", "4", "5", "6", "7", "8", "9">>
Digits == { DigitChars[i] : i \in DOMAIN DigitChars }
DigitVal(c) == (CHOOSE i \in DOMAIN DigitChars : DigitChars[i] = c) - 1

IsDigits(s) == Len(s) > 0 /\ \A i \in DOMAIN s : s[i] \in Digits

RECURSIVE DigitsToInt(_)
DigitsToInt(s) ==
    IF Len(s) = 0 THEN 0
    ELSE 10 * DigitsToInt(SubSeq(s, 1, Len(s) - 1)) + DigitVal(s[Len(s)])

\* int(text): Some(n), or None when int() raises ValueError.  Covers an
\* optional sign followed by decimal digits.
ParseInt(s) ==
    IF IsDigits(s) THEN Some(DigitsToInt(s))
    ELSE IF Len(s) > 1 /\ s[1] = "+" /\ IsDigits(Tail(s)) THEN Some(DigitsToInt(Tail(s)))
    ELSE IF Len(s) > 1 /\ s[1] = "-" /\ IsDigits(Tail(s)) THEN Some(0 - DigitsToInt(Tail(s)))
    ELSE None

HasPrefix(s, p) == Len(s) >= Len(p) /\ SubSeq(s, 1, Len(p)) = p

\* SHAREX_UAGENT_RGX.match(ua) is not None, for ^ShareX/\d+\.\d+\.\d+$
\* ($ also matches just before one trailing newline).
SHAREX_UAGENT_RGX(ua) ==
    LET s == IF Len(ua) > 0 /\ ua[Len(ua)] = "\n" THEN SubSeq(ua, 1, Len(ua) - 1) ELSE ua
        p == <<"S", "h", "a", "r", "e", "X", "/">>
        ver == SubSeq(s, Len(p) + 1, Len(s))
    IN /\ HasPrefix(s, p)
       /\ \E i, j \in DOMAIN ver :
            /\ i < j
            /\ ver[i] = "." /\ ver[j] = "."
            /\ IsDigits(SubSeq(ver, 1, i - 1))
            /\ IsDigits(SubSeq(ver, i + 1, j - 1))
            /\ IsDigits(SubSeq(ver, j + 1, Len(ver)))

\* file.suffix: the final component of the name from its last dot on
RECURSIVE LastDot(_)
LastDot(name) ==
    IF Len(name) = 0 THEN 0
    ELSE IF name[Len(name)] = "." THEN Len(name)
    ELSE LastDot(SubSeq(name, 1, Len(name) - 1))

Suffix(name) ==
    LET d == LastDot(name)
    IN IF d <= 1 \/ d = Len(name) THEN <<>> ELSE SubSeq(name, d, Len(name))

Stem(name) ==
    LET d == LastDot(name)
    IN IF d <= 1 \/ d = Len(name) THEN name ELSE SubSeq(name, 1, d - 1)

(***************************************************************************)
(* secrets.token_urlsafe(nbytes): the URL-safe base64 text of nbytes random *)
(* bytes with the '=' padding stripped.                                     *)
(***************************************************************************)
B64URL == <<"A", "B", "C", "D", "E", "F", "G", "H", "I", "J", "K", "L", "M",
            "N", "O", "P", "Q", "R", "S", "T", "U", "V", "W", "X", "Y", "Z",
            "a", "b", "c", "d", "e", "f", "g", "h", "i", "j", "k", "l", "m",
            "n", "o", "p", "q", "r", "s", "t", "u", "v", "w", "x", "y", "z",
            "0", "1", "2", "3", "4", "5", "6", "7", "8", "9", "-", "_">>

RECURSIVE token_urlsafe(_)
token_urlsafe(bs) ==
    IF Len(bs) = 0 THEN <<>>
    ELSE IF Len(bs) = 1 THEN
        << B64URL[(bs[1] \div 4) + 1],
           B64URL[((bs[1] % 4) * 16) + 1] >>
    ELSE IF Len(bs) = 2 THEN
        << B64URL[(bs[1] \div 4) + 1],
           B64URL[((bs[1] % 4) * 16 + (bs[2] \div 16)) + 1],
           B64URL[((bs[2] % 16) * 4) + 1] >>
    ELSE
        << B64URL[(bs[1] \div 4) + 1],
           B64URL[((bs[1] % 4) * 16 + (bs[2] \div 16)) + 1],
           B64URL[((bs[2] % 16) * 4 + (bs[3] \div 64)) + 1],
           B64URL[(bs[3] % 64) + 1] >>
        \o token_urlsafe(SubSeq(bs, 4, Len(bs)))

(***************************************************************************)
(* User privileges and the auth store.                                      *)
(***************************************************************************)
ACTIVE == 1
MANAGEMENT == 2
DEVELOPMENT == 4

\* priv & flag != 0, for a single-bit flag
HasPriv(priv, flag) == (priv \div flag) % 2 = 1

\* Rows of the users table: an active user, a user holding every privilege,
\* and a user holding MANAGEMENT and DEVELOPMENT whose ACTIVE bit is cleared.
USERS == {
    [id |-> 1, name |-> "ann", priv |-> ACTIVE, token |-> "t-ann"],
    [id |-> 2, name |-> "dev", priv |-> ACTIVE + MANAGEMENT + DEVELOPMENT, token |-> "t-dev"],
    [id |-> 3, name |-> "ban", priv |-> MANAGEMENT + DEVELOPMENT, token |-> "t-ban"] }

\* variant: the query asking for any privilege bit
fetch_user_nonzero(token) ==
    LET rows == { u \in USERS : u.token = token /\ u.priv # 0 }
    IN IF rows = {} THEN None ELSE Some(CHOOSE u \in rows : TRUE)

\* variant: the query without its privilege condition
fetch_user_any(token) ==
    LET rows == { u \in USERS : u.token = token }
    IN IF rows = {} THEN None ELSE Some(CHOOSE u \in rows : TRUE)

\* SELECT id, name, priv FROM users WHERE token = %s AND priv & 1
fetch_user(token) ==
    LET rows == { u \in USERS : u.token = token /\ HasPriv(u.priv, 1) }
    IN IF rows = {} THEN None ELSE Some(CHOOSE u \in rows : TRUE)

(***************************************************************************)
(* Requests the clients may send.                                           *)
(***************************************************************************)
Zeros(n) == [i \in 1..n |-> 0]

BODY_PNG == PNG_MAGIC \o Zeros(48) \o PNG_IEND
BODY_PNG_SHORT == PNG_MAGIC \o PNG_IEND
BODY_PNG_NO_IEND == PNG_MAGIC \o Zeros(56)
BODY_JFIF == <<255, 216, 255, 224, 0, 16, 74, 70, 73, 70, 0>> \o Zeros(53)
BODY_EXIF == <<255, 216, 255, 225, 0, 16, 69, 120, 105, 102, 0>> \o Zeros(53)
BODY_SPIFF == <<255, 216, 255, 232, 0, 32, 83, 80, 73, 70, 70, 0>> \o Zeros(52)
BODY_GIF == <<71, 73, 70, 56, 57, 97>> \o Zeros(56) \o <<0, 59>>
BODY_BMP == <<66, 77>> \o Zeros(62)
BODY_MP4 == <<0, 0, 0, 24, 102, 116, 121, 112, 105, 115, 111, 109>> \o Zeros(52)
BODY_WEBM == <<26, 69, 223, 163>> \o Zeros(60)
BODY_PSD == <<56, 66, 80, 83>> \o Zeros(60)
BODY_HDR == <<35, 63, 82, 65, 68, 73, 65, 78, 67, 69, 10>> \o Zeros(53)
BODY_EXE == <<77, 90>> \o Zeros(62)

UA_SHAREX == <<"S", "h", "a", "r", "e", "X", "/", "1", "3", ".", "4", ".", "0">>
UA_OTHER == <<"S", "h", "a", "r", "e", "X", "/", "1", "3", ".", "4">>

CL_63 == <<"6", "3">>
CL_64 == <<"6", "4">>
CL_MAX == <<"1", "0", "7", "3", "7", "4", "1", "8", "2", "3">>
CL_OVER == <<"1", "0", "7", "3", "7", "4", "1", "8", "2", "4">>
CL_BAD == <<"6", "4", "B">>

\* a header that is absent is the empty set of values
Hdr(name, opt) == IF opt = {} THEN EmptyFn ELSE name :> (CHOOSE v \in opt : TRUE)

Request(ua, token, ctype, clen, body) ==
    [headers |-> Hdr("User-Agent", ua) @@ Hdr("Token", token)
                 @@ Hdr("Content-Type", ctype) @@ Hdr("Content-Length", clen),
     body |-> body]

UnregisteredMimes == {"text/plain"}

AllBodies == { None, Some(<<>>), Some(BODY_PNG), Some(BODY_PNG_SHORT), Some(BODY_PNG_NO_IEND),
               Some(BODY_JFIF), Some(BODY_EXIF), Some(BODY_SPIFF), Some(BODY_GIF),
               Some(BODY_BMP), Some(BODY_MP4), Some(BODY_WEBM), Some(BODY_PSD),
               Some(BODY_HDR), Some(BODY_EXE) }

\* every combination of header presence, User-Agent, token and declared size
HeaderRequests ==
    { Request(ua, token, ctype, clen, body) :
        ua \in {{}, {UA_SHAREX}, {UA_OTHER}},
        token \in {{}, {"t-ann"}, {"t-dev"}, {"t-ban"}, {"t-none"}},
        ctype \in {{}, {"image/png"}, {"text/plain"}},
        clen \in {{}, {CL_BAD}, {CL_63}, {CL_64}, {CL_MAX}, {CL_OVER}},
        body \in {None, Some(<<>>), Some(BODY_PNG)} }

\* every combination of token, declared type and body behind valid headers
TypedRequests ==
    { Request({UA_SHAREX}, token, {ctype}, clen, body) :
        token \in {{"t-ann"}, {"t-dev"}, {"t-ban"}, {"t-none"}},
        ctype \in RegisteredMimes \cup UnregisteredMimes,
        clen \in {{CL_64}, {CL_MAX}},
        body \in AllBodies \ {None} }

AllRequests == HeaderRequests \cup TypedRequests

\* requests that pass header and size validation, sent together
CoreRequests ==
    << Request({UA_SHAREX}, {"t-ann"}, {"image/png"}, {CL_64}, Some(BODY_PNG)),
       Request({UA_SHAREX}, {"t-dev"}, {"image/png"}, {CL_64}, Some(BODY_PNG_SHORT)),
       Request({UA_SHAREX}, {"t-ban"}, {"image/png"}, {CL_64}, Some(BODY_PNG)),
       Request({UA_SHAREX}, {"t-ann"}, {"image/png"}, {CL_64}, Some(BODY_GIF)),
       Request({UA_SHAREX}, {"t-dev"}, {"text/plain"}, {CL_64}, Some(BODY_PNG)) >>

\* Retrieval requests: the headers get() reads to find the client address
IP_ADDR == <<"1", ".", "2", ".", "3", ".", "4">>
IP_UNKNOWN == <<"1", "0", ".", "0", ".", "0", ".", "1">>

GetHeaders ==
    { EmptyFn,
      "CF-Connecting-IP" :> IP_ADDR,
      ("CF-Connecting-IP" :> <<>>) @@ ("X-Real-IP" :> IP_ADDR),
      "X-Forwarded-For" :> (IP_UNKNOWN \o <<",">> \o IP_ADDR) }

\* GEOLOC_DB.city(ip_addr) finds the addresses the database lists
city_found(ip_addr) == ip_addr = IP_ADDR

\* secrets.token_bytes(n): sample outcomes of the random source
BytePatterns(n) ==
    IF n = 8 THEN { <<0, 0, 0>>, <<255, 255, 255>> }
    ELSE IF n % 2 = 0 THEN { <<251, 239, 190>> }
    ELSE { <<255, 255, 255>> }

token_bytes(n) == { [i \in 1..n |-> p[((i - 1) % 3) + 1]] : p \in BytePatterns(n) }

MaxConns == 2

Conns == 1..MaxConns

URL_PREFIX == <<"h", "t", "t", "p", "s", ":", "/", "/", "i", ".", "c", "m", "y",
                "u", "i", ".", "x", "y", "z", "/">>

(***************************************************************************)
(* State.                                                                   *)
(***************************************************************************)
VARIABLES
    storage,    \* STATIC_PATH: file name -> bytes
    ledger,     \* the uploads table: sequence of rows (name, user_id, size)
    conns,      \* per connection: position in upload() and its locals
    running,    \* the coroutine holding the event loop between awaits (0: none)
    offered,    \* per connection: the upload request its client sends
    last_get,   \* the retrieval being answered: request and response
    get_calls,  \* history: number of retrieval requests counted
    returned,   \* history: name -> upload that answered 200 with its URL
    period,         \* ratelimit(): the window length of the limiter
    max_count,      \* ratelimit(): the calls admitted per window
    is_coroutine,   \* ratelimit(): inspect.iscoroutinefunction(f)
    last_reset,     \* ratelimit(): start of the current window
    num_calls,      \* ratelimit(): calls counted in the current window
    clock,          \* time.perf_counter()
    in_flight,      \* invocations of the wrapped coroutine not yet finished
    last_call,      \* history: the latest call of the wrapper
    calls_made,     \* history: number of calls of the wrapper
    window_calls,   \* history: calls made since the window start
    started,        \* history: invocations of f started since the last counter reset
    invoked_at      \* history: the times at which f was invoked

server_vars == <<storage, ledger, conns, running, offered, last_get, get_calls, returned>>
limiter_vars == <<period, max_count, is_coroutine, last_reset, num_calls, clock,
                  in_flight, last_call, calls_made, window_calls, started,
                  invoked_at>>
vars == <<server_vars, limiter_vars>>

\* the decorator that get() carries in a comment (line 207)
GET_PERIOD == 60
GET_MAX_COUNT == 15
\* RATELIMITED_PNG: the bytes of disappointed.jpeg
RATELIMITED_PNG == <<255, 216, 255, 219>>

MaxClock == 5
MaxCalls == 5
Periods == {2, 3}
MaxCounts == 1..2

\* ratelimit(), lines 143-152: the closure a decorated function starts with
NewLimiter(p, n, co) ==
    /\ period = p
    /\ max_count = n
    /\ is_coroutine = co
    /\ last_reset = 0
    /\ num_calls = 0
    /\ in_flight = 0
    /\ last_call = None
    /\ calls_made = 0
    /\ window_calls = 0
    /\ started = 0
    /\ invoked_at = <<>>

Response(status, body) == [status |-> status, body |-> body, error |-> ""]
\* an exception leaving the handler
Raised(error) == [status |-> 0, body |-> <<>>, error |-> error]

IdleConn ==
    [pc |-> "idle", req |-> None, user |-> None, ext |-> <<>>, num_chars |-> 0,
     new_filename |-> <<>>, filesize |-> 0, logged |-> FALSE, resp |-> None]

\* the server after before_serving(): nothing stored, no request in progress
ServerStart ==
    /\ storage = EmptyFn
    /\ ledger = <<>>
    /\ conns = [c \in Conns |-> IdleConn]
    /\ running = 0
    /\ last_get = None
    /\ get_calls = 0
    /\ returned = EmptyFn

\* one client sends a request
OneClient(requests) ==
    { [c \in Conns |-> IF c = 1 THEN Some(r) ELSE None] : r \in requests }

\* every client sends a request of its own
AllClients ==
    { [c \in Conns |-> Some(CoreRequests[pick[c]])] :
        pick \in { p \in [Conns -> DOMAIN CoreRequests] :
                     \A c, d \in Conns : c < d => p[c] < p[d] } }

Init ==
    /\ ServerStart
    /\ offered \in OneClient(AllRequests) \cup AllClients
    /\ NewLimiter(GET_PERIOD, GET_MAX_COUNT, TRUE)
    /\ clock = 0

Finish(c, resp) ==
    conns' = [conns EXCEPT ![c].pc = "done", ![c].resp = Some(resp)]

REQUIRED_UPLOAD_HEADERS == {"User-Agent", "Token", "Content-Type"}

\* variant: the required headers present, whatever the client
headers_valid_present(headers) ==
    \A k \in REQUIRED_UPLOAD_HEADERS : k \in DOMAIN headers

\* upload(), lines 249-252: the required headers and the client pattern
headers_valid(headers) ==
    /\ \A k \in REQUIRED_UPLOAD_HEADERS : k \in DOMAIN headers
    /\ SHAREX_UAGENT_RGX(headers["User-Agent"])

\* variant: the lower bound taken as exclusive
filesize_valid_exclusive(filesize) == 64 < filesize /\ filesize < 1024 * 1024 * 1024

\* upload(), line 259: 0x40 <= filesize < 0x400 ** 3
filesize_valid(filesize) == 64 <= filesize /\ filesize < 1024 * 1024 * 1024

\* variant: the condition of the declared type is not consulted
resolve_ext_unchecked(mime_type, body) ==
    IF mime_type \notin RegisteredMimes THEN None
    ELSE Some(filetype_of(mime_type).extension)

\* variant: the body checked against every rule, not the declared type's
resolve_ext_declared(mime_type, body) ==
    IF mime_type \notin RegisteredMimes THEN None
    ELSE IF \E m \in RegisteredMimes : condition(m, body)
    THEN Some(filetype_of(mime_type).extension)
    ELSE None

\* variant: an unregistered type falls through to a generic extension
resolve_ext_generic(mime_type, body) ==
    IF mime_type \notin RegisteredMimes THEN Some(<<"b", "i", "n">>)
    ELSE IF condition(mime_type, body) THEN Some(filetype_of(mime_type).extension)
    ELSE None

\* upload(), lines 271-281: the extension of an accepted upload, None for
\* an unsupported type or a body its declared type's condition rejects
resolve_ext(mime_type, body) ==
    IF mime_type \notin RegisteredMimes THEN None
    ELSE IF condition(mime_type, body) THEN Some(filetype_of(mime_type).extension)
    ELSE None

\* variant: the check made against the names already answered
exists_cached(name) == name \in DOMAIN returned

\* variant: the occupancy check always answers "free"
exists_never(name) == FALSE

\* file.exists() under STATIC_PATH
exists(name) == name \in DOMAIN storage

\* upload(), lines 249-262: from the start of the handler to the auth query
UploadReceive(c) ==
    /\ running = 0
    /\ last_get = None
    /\ conns[c].pc = "idle"
    /\ offered[c] # None
    /\ LET req == Val(offered[c])
           h == req.headers
           start == [conns EXCEPT ![c].req = Some(req)]
           reply(resp) == conns' = [start EXCEPT ![c].pc = "done", ![c].resp = Some(resp)]
       IN IF ~ headers_valid(h)
          THEN reply(Response(400, <<>>))                  \* invalid request
          ELSE IF req.body = None
          THEN reply(Response(400, <<>>))                  \* no body
          ELSE IF "Content-Length" \notin DOMAIN h
          THEN reply(Raised("KeyError"))
          ELSE IF ParseInt(h["Content-Length"]) = None
          THEN reply(Raised("ValueError"))
          ELSE LET filesize == Val(ParseInt(h["Content-Length"]))
               IN IF ~ filesize_valid(filesize)
                  THEN reply(Response(400, <<>>))          \* filesize invalid
                  ELSE conns' = [start EXCEPT ![c].pc = "auth",
                                              ![c].filesize = filesize]
    /\ UNCHANGED <<storage, ledger, running, offered, last_get, get_calls, returned,
                   limiter_vars>>

\* upload(), lines 262-284: the auth query returns; type checks; the draw of
\* the token length
UploadAuthReturn(c, db_ok, n) ==
    /\ running = 0
    /\ last_get = None
    /\ conns[c].pc = "auth"
    /\ LET req == Val(conns[c].req)
           user == fetch_user(req.headers["Token"])
           mime_type == req.headers["Content-Type"]
       IN IF ~ db_ok
          THEN Finish(c, Raised("DatabaseError")) /\ UNCHANGED running
          ELSE IF user = None
          THEN Finish(c, Response(401, <<>>)) /\ UNCHANGED running   \* unauthorized
          ELSE IF resolve_ext(mime_type, Val(req.body)) = None
          THEN Finish(c, Response(400, <<>>)) /\ UNCHANGED running   \* unsupported or invalid
          ELSE /\ conns' = [conns EXCEPT ![c].pc = "gen",
                                         ![c].user = user,
                                         ![c].ext = Val(resolve_ext(mime_type, Val(req.body))),
                                         ![c].num_chars = n]
               /\ running' = c
    /\ UNCHANGED <<storage, ledger, offered, last_get, get_calls, returned, limiter_vars>>

\* variant: the ledger insert issued without the body being written
UploadGenerate_nowrite(c, bytes) ==
    /\ running = c
    /\ conns[c].pc = "gen"
    /\ LET new_filename == token_urlsafe(bytes) \o <<".">> \o conns[c].ext
       IN IF exists(new_filename)
          THEN /\ conns' = [conns EXCEPT ![c].new_filename = new_filename]
               /\ UNCHANGED running
          ELSE /\ conns' = [conns EXCEPT ![c].pc = "insert",
                                         ![c].new_filename = new_filename]
               /\ running' = 0
    /\ UNCHANGED <<storage, ledger, offered, last_get, get_calls, returned, limiter_vars>>

\* upload(), lines 285-293: one pass of the naming loop; on a free name the
\* body is written and the ledger insert is issued
UploadGenerate(c, bytes) ==
    /\ running = c
    /\ conns[c].pc = "gen"
    /\ LET new_filename == token_urlsafe(bytes) \o <<".">> \o conns[c].ext
       IN IF exists(new_filename)
          THEN /\ conns' = [conns EXCEPT ![c].new_filename = new_filename]
               /\ UNCHANGED <<storage, running>>
          ELSE /\ storage' = (new_filename :> Val(Val(conns[c].req).body)) @@ storage
               /\ conns' = [conns EXCEPT ![c].pc = "insert",
                                         ![c].new_filename = new_filename]
               /\ running' = 0
    /\ UNCHANGED <<ledger, offered, last_get, get_calls, returned, limiter_vars>>

\* upload(), lines 293-303: the ledger insert returns; the URL is answered
UploadInsertReturn(c, db_ok) ==
    /\ running = 0
    /\ last_get = None
    /\ conns[c].pc = "insert"
    /\ IF ~ db_ok
       THEN /\ Finish(c, Raised("DatabaseError"))
            /\ UNCHANGED <<ledger, returned>>
       ELSE /\ ledger' = Append(ledger, [name |-> conns[c].new_filename,
                                         user_id |-> Val(conns[c].user).id,
                                         size |-> conns[c].filesize])
            /\ conns' = [conns EXCEPT
                          ![c].pc = "done",
                          ![c].logged = TRUE,                \* log(... uploaded ...)
                          ![c].resp = Some(Response(200, URL_PREFIX \o conns[c].new_filename))]
            /\ returned' = (conns[c].new_filename :>
                              [mime_type |-> Val(conns[c].req).headers["Content-Type"],
                               body |-> Val(Val(conns[c].req).body),
                               user_id |-> Val(conns[c].user).id]) @@ returned
    /\ UNCHANGED <<storage, running, offered, last_get, get_calls, limiter_vars>>

(***************************************************************************)
(* Retrieval.                                                               *)
(***************************************************************************)
WordChars ==
    { B64URL[i] : i \in DOMAIN B64URL } \cup {"_"}

\* the route ^/[\w-]{11,22}\.(?:jpeg|png|gif|bmp|mp4|webm|psd|hdr)$ on "/" + name
RouteMatches(name) ==
    /\ LastDot(name) > 0
    /\ LET stem == SubSeq(name, 1, LastDot(name) - 1)
           ext == SubSeq(name, LastDot(name) + 1, Len(name))
       IN /\ 11 <= Len(stem) /\ Len(stem) <= 22
          /\ \A i \in DOMAIN stem : stem[i] \in WordChars \cup {"-"}
          /\ ext \in { SUPPORTED_FILES[i].extension : i \in DOMAIN SUPPORTED_FILES }

\* text.split(",")[0]
RECURSIVE FirstField(_)
FirstField(text) ==
    IF Len(text) = 0 \/ text[1] = "," THEN <<>>
    ELSE <<text[1]>> \o FirstField(Tail(text))

\* headers.get(name), with None for an absent header
HeaderGet(headers, name) ==
    IF name \in DOMAIN headers THEN Some(headers[name]) ELSE None

\* a header value that is None or empty is false
Truthy(opt) == opt # None /\ Len(Val(opt)) > 0

\* get(), lines 220-226: the client address, None when no header gives one
ResolveIp(headers) ==
    IF Truthy(HeaderGet(headers, "CF-Connecting-IP"))
    THEN HeaderGet(headers, "CF-Connecting-IP")
    ELSE IF Truthy(HeaderGet(headers, "X-Forwarded-For"))
    THEN Some(FirstField(headers["X-Forwarded-For"]))
    ELSE IF Truthy(HeaderGet(headers, "X-Real-IP"))
    THEN HeaderGet(headers, "X-Real-IP")
    ELSE None

\* variant: the suffix compared with the bare extension
MimeOfSuffix_nodot(suffix) ==
    LET hits == { i \in DOMAIN SUPPORTED_FILES : suffix = SUPPORTED_FILES[i].extension }
    IN IF hits = {} THEN None
       ELSE Some(SUPPORTED_FILES[CHOOSE i \in hits : \A j \in hits : i <= j].mime_type)

\* get(), lines 213-218: the MIME type of the first rule with the file's suffix
MimeOfSuffix(suffix) ==
    LET hits == { i \in DOMAIN SUPPORTED_FILES :
                    suffix = <<".">> \o SUPPORTED_FILES[i].extension }
    IN IF hits = {} THEN None
       ELSE Some(SUPPORTED_FILES[CHOOSE i \in hits : \A j \in hits : i <= j].mime_type)

\* b'file not found'
FILE_NOT_FOUND == <<102, 105, 108, 101, 32, 110, 111, 116, 32, 102, 111, 117, 110, 100>>

GetResponse(status, body, headers) ==
    [status |-> status, body |-> body, error |-> "", headers |-> headers]
GetRaised(error, headers) ==
    [status |-> 0, body |-> <<>>, error |-> error, headers |-> headers]

\* variant: the file is read without the existence check
get_unchecked(path, headers) ==
    IF MimeOfSuffix(Suffix(path)) = None
    THEN GetResponse(400, <<>>, EmptyFn)
    ELSE LET ctype == "Content-Type" :> Val(MimeOfSuffix(Suffix(path)))
             ip_addr == ResolveIp(headers)
         IN IF ip_addr = None
            THEN GetResponse(400, <<>>, ctype)
            ELSE IF ~ city_found(Val(ip_addr))
            THEN GetRaised("AddressNotFoundError", ctype)
            ELSE IF ~ exists(path)
            THEN GetRaised("FileNotFoundError", ctype)
            ELSE GetResponse(200, storage[path],
                             ctype @@ ("Cache-Control" :> "public, max-age=86400"))

\* get(), lines 208-242
get(path, headers) ==
    IF ~ exists(path)
    THEN GetResponse(404, FILE_NOT_FOUND, EmptyFn)
    ELSE IF MimeOfSuffix(Suffix(path)) = None
    THEN GetResponse(400, <<>>, EmptyFn)                    \* impossible filetype
    ELSE LET ctype == "Content-Type" :> Val(MimeOfSuffix(Suffix(path)))
             ip_addr == ResolveIp(headers)
         IN IF ip_addr = None
            THEN GetResponse(400, <<>>, ctype)              \* no ip
            ELSE IF ~ city_found(Val(ip_addr))
            THEN GetRaised("AddressNotFoundError", ctype)
            ELSE GetResponse(200, storage[path],
                             ctype @@ ("Cache-Control" :> "public, max-age=86400"))

MaxBurst == 16

\* names a client may ask for without having been told them
ProbeNames == { token_urlsafe(Zeros(8)) \o <<".", "p", "n", "g">> }

GetHandler(path, headers) ==
    /\ running = 0
    /\ last_get = None
    /\ RouteMatches(path)
    /\ last_get' = Some([path |-> path, headers |-> headers,
                         resp |-> get(path, headers)])
    /\ UNCHANGED <<storage, ledger, conns, running, offered, returned, limiter_vars>>

\* a retrieval request is served
Get(path, headers) ==
    /\ GetHandler(path, headers)
    /\ UNCHANGED get_calls

\* a retrieval request is served and counted
GetCounted(path, headers) ==
    /\ get_calls < MaxBurst
    /\ GetHandler(path, headers)
    /\ get_calls' = get_calls + 1

\* the response is sent
GetClose ==
    /\ last_get # None
    /\ last_get' = None
    /\ UNCHANGED <<storage, ledger, conns, running, offered, get_calls, returned, limiter_vars>>

Next ==
    \/ \E c \in Conns : UploadReceive(c)
    \/ \E c \in Conns, db_ok \in BOOLEAN, n \in 8..16 : UploadAuthReturn(c, db_ok, n)
    \/ \E c \in Conns, n \in 8..16 : \E bytes \in token_bytes(n) :
          conns[c].num_chars = n /\ UploadGenerate(c, bytes)
    \/ \E c \in Conns, db_ok \in BOOLEAN : UploadInsertReturn(c, db_ok)
    \/ \E path \in DOMAIN storage \cup ProbeNames, headers \in GetHeaders :
          Get(path, headers)
    \/ GetClose

Spec == Init /\ [][Next]_vars

\* the naming loop of connection c makes a pass
Naming(c) ==
    \E n \in 8..16 : \E bytes \in token_bytes(n) :
        conns[c].num_chars = n /\ UploadGenerate(c, bytes)

\* the server with a fair random source: a name that stays free and can be
\* drawn is drawn in the end
SpecFair == Init /\ [][Next]_vars /\ \A c \in Conns : WF_vars(Naming(c))

(***************************************************************************)
(* The server under a burst of retrievals, each of them counted.            *)
(***************************************************************************)
InitBurst ==
    /\ ServerStart
    /\ offered \in OneClient({ CoreRequests[i] : i \in DOMAIN CoreRequests })
    /\ NewLimiter(GET_PERIOD, GET_MAX_COUNT, TRUE)
    /\ clock = 0

NextBurst ==
    \/ \E c \in Conns : UploadReceive(c)
    \/ \E c \in Conns, db_ok \in BOOLEAN, n \in 8..16 : UploadAuthReturn(c, db_ok, n)
    \/ \E c \in Conns, n \in 8..16 : \E bytes \in token_bytes(n) :
          conns[c].num_chars = n /\ UploadGenerate(c, bytes)
    \/ \E c \in Conns, db_ok \in BOOLEAN : UploadInsertReturn(c, db_ok)
    \/ \E path \in DOMAIN storage \cup ProbeNames, headers \in GetHeaders :
          GetCounted(path, headers)
    \/ GetClose

SpecBurst == InitBurst /\ [][NextBurst]_vars

(***************************************************************************)
(* The ratelimit decorator around a function f.                             *)
(***************************************************************************)
DEFAULT_RETURN == "default_return"
F_RESULT == "f_result"

\* variant: every call starts a new window
window_over_always(elapsed) == TRUE

\* variant: the window is over only after more than a period
window_over_late(elapsed) == period - elapsed < 0

\* wrapper, lines 160-163: period_remaining <= 0
window_over(elapsed) == period - elapsed <= 0

\* variant: one call more than the limit is let through
ratelimited_late(calls) == calls > max_count + 1

\* variant: the call that reaches the limit is refused
ratelimited_early(calls) == calls >= max_count

\* wrapper, line 169: num_calls > max_count
ratelimited(calls) == calls > max_count

\* wrapper, lines 157-173 (coroutine) and 175-191: one call, up to the point
\* where f is invoked or default_return returned; reread is the second
\* reading of the clock (line 165)
Call(reread) ==
    /\ calls_made < MaxCalls
    /\ LET elapsed == clock - last_reset
           reset == window_over(elapsed)
           calls == (IF reset THEN 0 ELSE num_calls) + 1
           invoked == ~ ratelimited(calls)
       IN /\ last_reset' = IF reset THEN reread ELSE last_reset
          /\ clock' = IF reset THEN reread ELSE clock
          /\ num_calls' = calls
          /\ in_flight' = IF invoked /\ is_coroutine THEN in_flight + 1 ELSE in_flight
          /\ window_calls' = IF clock - last_reset >= period THEN 1 ELSE window_calls + 1
          /\ started' = (IF reset THEN 0 ELSE started) + (IF invoked THEN 1 ELSE 0)
          /\ invoked_at' = IF invoked
                           THEN Append(invoked_at, IF reset THEN reread ELSE clock)
                           ELSE invoked_at
          /\ last_call' = Some([at |-> clock,
                                window_start |-> last_reset,
                                before |-> window_calls,
                                invoked |-> invoked,
                                value |-> IF invoked THEN F_RESULT ELSE DEFAULT_RETURN,
                                counted |-> calls])
    /\ calls_made' = calls_made + 1
    /\ UNCHANGED <<period, max_count, is_coroutine, server_vars>>

\* the wrapped coroutine finishes and its caller gets the result
Return ==
    /\ in_flight > 0
    /\ in_flight' = in_flight - 1
    /\ UNCHANGED <<period, max_count, is_coroutine, last_reset, num_calls, clock,
                   last_call, calls_made, window_calls, started, invoked_at, server_vars>>

\* time passes
Tick ==
    /\ clock < MaxClock
    /\ clock' = clock + 1
    /\ UNCHANGED <<period, max_count, is_coroutine, last_reset, num_calls,
                   in_flight, last_call, calls_made, window_calls, started, invoked_at,
                   server_vars>>

InitLimiter ==
    /\ ServerStart
    /\ offered = [c \in Conns |-> None]
    /\ \E p \in Periods, n \in MaxCounts, co \in BOOLEAN : NewLimiter(p, n, co)
    /\ clock \in 0..1

NextLimiter ==
    \/ \E reread \in {clock, clock + 1} : reread <= MaxClock /\ Call(reread)
    \/ Return
    \/ Tick

SpecLimiter == InitLimiter /\ [][NextLimiter]_vars

(***************************************************************************)
(* Properties.                                                              *)
(***************************************************************************)
Answered(cn) == cn.pc = "done"
HeadersOf(cn) == Val(cn.req).headers
BodyOf(cn) == Val(cn.req).body
RespOf(cn) == Val(cn.resp)

\* the name a 200 response's URL carries
UrlName(url) == SubSeq(url, Len(URL_PREFIX) + 1, Len(url))

TokenIsActive(token) == \E u \in USERS : u.token = token /\ HasPriv(u.priv, ACTIVE)

\* the declared Content-Length is an integer in [64, 2^30)
SizeInRange(h) ==
    /\ "Content-Length" \in DOMAIN h
    /\ ParseInt(h["Content-Length"]) # None
    /\ 64 <= Val(ParseInt(h["Content-Length"]))
    /\ Val(ParseInt(h["Content-Length"])) < 1073741824

ShareXAgent(h) == "User-Agent" \in DOMAIN h /\ SHAREX_UAGENT_RGX(h["User-Agent"])

\* the declared type is registered and its predicate accepts the body
BodyMatchesType(cn) ==
    /\ "Content-Type" \in DOMAIN HeadersOf(cn)
    /\ HeadersOf(cn)["Content-Type"] \in RegisteredMimes
    /\ BodyOf(cn) # None
    /\ condition(HeadersOf(cn)["Content-Type"], Val(BodyOf(cn)))

\* the declared type is registered and its predicate rejects the body
BodyFailsType(cn) ==
    /\ "Content-Type" \in DOMAIN HeadersOf(cn)
    /\ HeadersOf(cn)["Content-Type"] \in RegisteredMimes
    /\ BodyOf(cn) # None
    /\ ~ condition(HeadersOf(cn)["Content-Type"], Val(BodyOf(cn)))

DbFailed(cn) == RespOf(cn).error = "DatabaseError"

\* an upload request that meets every condition of the pipeline
WellFormedUpload(cn) ==
    /\ ShareXAgent(HeadersOf(cn))
    /\ "Token" \in DOMAIN HeadersOf(cn)
    /\ TokenIsActive(HeadersOf(cn)["Token"])
    /\ BodyOf(cn) # None /\ Len(Val(BodyOf(cn))) > 0
    /\ SizeInRange(HeadersOf(cn))
    /\ BodyMatchesType(cn)

\* C1: an upload with the required headers, a ShareX User-Agent, a
\* non-empty body, a declared Content-Length in [64, 2^30), an active
\* user's token and a registered type whose predicate accepts the body is
\* answered 200 with https://i.cmyui.xyz/<name>, the name ending in "." and
\* the type's extension, when neither database query fails.
C1_ValidUploadAccepted ==
    \A c \in Conns :
        (Answered(conns[c]) /\ WellFormedUpload(conns[c]) /\ ~ DbFailed(conns[c]))
        => /\ RespOf(conns[c]).error = ""
           /\ RespOf(conns[c]).status = 200
           /\ HasPrefix(RespOf(conns[c]).body, URL_PREFIX)
           /\ Len(Stem(UrlName(RespOf(conns[c]).body))) > 0
           /\ Suffix(UrlName(RespOf(conns[c]).body))
                = <<".">> \o filetype_of(HeadersOf(conns[c])["Content-Type"]).extension

C1_Witness ==
    \E c \in Conns :
        /\ Answered(conns[c]) /\ WellFormedUpload(conns[c])
        /\ RespOf(conns[c]).status = 200
        /\ HeadersOf(conns[c])["Content-Type"] = "image/vnd.radiance"

\* C2: when an upload is answered 200 with a URL naming N, storage holds
\* the request's body under N and the ledger holds a row for N with the
\* authenticated user's id and a size equal to the number of bytes stored
\* under N.
C2_LedgerSizeIsStoredSize ==
    \A c \in Conns :
        (Answered(conns[c]) /\ RespOf(conns[c]).status = 200)
        => LET N == UrlName(RespOf(conns[c]).body)
           IN /\ N \in DOMAIN storage
              /\ storage[N] = Val(BodyOf(conns[c]))
              /\ \E i \in DOMAIN ledger :
                    /\ ledger[i].name = N
                    /\ \E u \in USERS : /\ u.token = HeadersOf(conns[c])["Token"]
                                       /\ ledger[i].user_id = u.id
                    /\ ledger[i].size = Len(storage[N])

\* the connection whose handler moves in this step
Moves(c) == conns'[c] # conns[c] /\ conns'[c].req # None

\* declared image/png with a body that does not start with the PNG magic
PngWithoutMagic(cn) ==
    /\ "Content-Type" \in DOMAIN HeadersOf(cn)
    /\ HeadersOf(cn)["Content-Type"] = "image/png"
    /\ BodyOf(cn) # None
    /\ Slice(Val(BodyOf(cn)), 0, 8) # PNG_MAGIC

\* valid headers, a declared size in range and an active user's token
ReachesTypeCheck(cn) ==
    /\ ShareXAgent(HeadersOf(cn))
    /\ SizeInRange(HeadersOf(cn))
    /\ "Token" \in DOMAIN HeadersOf(cn)
    /\ TokenIsActive(HeadersOf(cn)["Token"])

\* C3 (as amended): an upload with valid headers, a declared size in range
\* and an active user's token, declared as a registered type whose
\* predicate rejects its body (for image/png: a body not starting with the
\* PNG magic bytes), is answered 400 when the auth query succeeds; no step
\* of an upload whose body fails its declared type's predicate changes
\* storage or the ledger.
C3_MismatchRejected ==
    /\ [](\A c \in Conns :
            (Answered(conns[c]) /\ ~ DbFailed(conns[c]) /\ ReachesTypeCheck(conns[c])
                /\ (BodyFailsType(conns[c]) \/ PngWithoutMagic(conns[c])))
            => RespOf(conns[c]).status = 400)
    /\ [][\A c \in Conns :
            (Moves(c) /\ BodyFailsType(conns'[c]))
            => (storage' = storage /\ ledger' = ledger)]_vars

C3_Witness ==
    \E c \in Conns :
        /\ Answered(conns[c]) /\ ReachesTypeCheck(conns[c])
        /\ BodyFailsType(conns[c]) /\ PngWithoutMagic(conns[c])
        /\ RespOf(conns[c]).status = 400
        /\ storage # EmptyFn

\* C3 (as stated): every answered upload declared as a registered type
\* whose predicate rejects its body is answered 400.
C3_Original ==
    \A c \in Conns :
        (Answered(conns[c]) /\ RespOf(conns[c]).error = "" /\ BodyFailsType(conns[c]))
        => RespOf(conns[c]).status = 400

\* the Token header is absent
NoToken(cn) == "Token" \notin DOMAIN HeadersOf(cn)

\* the Token header is present and matches no user with the ACTIVE bit
InactiveToken(cn) ==
    /\ "Token" \in DOMAIN HeadersOf(cn)
    /\ ~ TokenIsActive(HeadersOf(cn)["Token"])

\* an upload valid in everything but its token
ValidButToken(cn) ==
    /\ ShareXAgent(HeadersOf(cn))
    /\ SizeInRange(HeadersOf(cn))
    /\ BodyMatchesType(cn)

\* C4 (as amended): an upload valid in body, size, declared type and
\* User-Agent whose Token header is present but matches no user with the
\* ACTIVE bit is answered 401 when the auth query succeeds, one without a
\* Token header is answered 400, and no step of either writes a blob.
C4_UnauthorizedRejected ==
    /\ [](\A c \in Conns :
            (Answered(conns[c]) /\ ValidButToken(conns[c]))
            => /\ (InactiveToken(conns[c]) /\ ~ DbFailed(conns[c]))
                    => RespOf(conns[c]).status = 401
               /\ NoToken(conns[c]) => RespOf(conns[c]).status = 400)
    /\ [][\A c \in Conns :
            (Moves(c) /\ ValidButToken(conns'[c])
                /\ (NoToken(conns'[c]) \/ InactiveToken(conns'[c])))
            => storage' = storage]_vars

C4_Witness ==
    \E c \in Conns :
        /\ Answered(conns[c]) /\ ValidButToken(conns[c])
        /\ "Token" \in DOMAIN HeadersOf(conns[c])
        /\ HeadersOf(conns[c])["Token"] = "t-ban"
        /\ RespOf(conns[c]).status = 401

\* C4 (as stated): such an upload is answered 401 whether its token is
\* absent or matches no active user.
C4_Original ==
    \A c \in Conns :
        (Answered(conns[c]) /\ ValidButToken(conns[c]) /\ RespOf(conns[c]).error = ""
            /\ (NoToken(conns[c]) \/ InactiveToken(conns[c])))
        => RespOf(conns[c]).status = 401

Unregistered(cn) ==
    \/ "Content-Type" \notin DOMAIN HeadersOf(cn)
    \/ HeadersOf(cn)["Content-Type"] \notin RegisteredMimes

\* C5: an upload whose declared Content-Type is not a registered MIME type
\* is never answered 200, whatever its body and user, and no step of it
\* changes storage or the ledger.
C5_UnregisteredNeverAccepted ==
    /\ [](\A c \in Conns :
            (Answered(conns[c]) /\ Unregistered(conns[c]))
            => RespOf(conns[c]).status # 200)
    /\ [][\A c \in Conns :
            (Moves(c) /\ Unregistered(conns'[c]))
            => (storage' = storage /\ ledger' = ledger)]_vars

C5_Witness ==
    \E c \in Conns :
        /\ Answered(conns[c])
        /\ ShareXAgent(HeadersOf(conns[c])) /\ SizeInRange(HeadersOf(conns[c]))
        /\ "Content-Type" \in DOMAIN HeadersOf(conns[c])
        /\ HeadersOf(conns[c])["Content-Type"] = "text/plain"
        /\ "Token" \in DOMAIN HeadersOf(conns[c])
        /\ HeadersOf(conns[c])["Token"] = "t-dev"
        /\ BodyOf(conns[c]) = Some(BODY_PNG)
        /\ RespOf(conns[c]).status = 400

GetOf == Val(last_get)

\* C6 (as amended): after an upload declared as M with body B was answered
\* 200 with the URL of N, a later GET /N whose headers give a client
\* address that the GeoIP lookup resolves is answered 200 with body B,
\* Content-Type M and Cache-Control "public, max-age=86400"; a GET /N that
\* carries no client address header is answered 400.
C6_RoundTrip ==
    (last_get # None /\ GetOf.path \in DOMAIN returned)
    => /\ (ResolveIp(GetOf.headers) # None /\ GetOf.resp.error = "")
          => /\ GetOf.resp.status = 200
             /\ GetOf.resp.body = returned[GetOf.path].body
             /\ GetOf.resp.headers
                  = ("Content-Type" :> returned[GetOf.path].mime_type)
                    @@ ("Cache-Control" :> "public, max-age=86400")
       /\ ResolveIp(GetOf.headers) = None => GetOf.resp.status = 400

C6_Witness ==
    /\ last_get # None
    /\ GetOf.path \in DOMAIN returned
    /\ GetOf.resp.status = 200
    /\ Cardinality(DOMAIN storage) = 2
    /\ \E c \in Conns : conns[c].pc = "insert"

\* C6 (as stated): every answered GET /N for such a name is answered 200
\* with B, whatever headers it carries.
C6_Original ==
    (last_get # None /\ GetOf.path \in DOMAIN returned /\ GetOf.resp.error = "")
    => /\ GetOf.resp.status = 200
       /\ GetOf.resp.body = returned[GetOf.path].body

\* C7: a GET for a name that no upload has written to storage is answered
\* 404 and carries no file bytes.
C7_AbsentIs404 ==
    (last_get # None /\ GetOf.path \notin DOMAIN storage)
    => /\ GetOf.resp.status = 404
       /\ GetOf.resp.body = FILE_NOT_FOUND
       /\ \A name \in DOMAIN storage : GetOf.resp.body # storage[name]

C7_Witness ==
    /\ last_get # None
    /\ GetOf.path \notin DOMAIN storage
    /\ storage # EmptyFn
    /\ GetOf.resp.status = 404

UrlSafeChars == { B64URL[i] : i \in DOMAIN B64URL }

\* C10: the name the naming loop settles on is not a key of storage at
\* that moment and is <token>.<ext>, the token of 11 to 22 characters out
\* of [A-Za-z0-9_-] and ext the extension of the upload's type.
C10_FreshWellFormedName ==
    [][\A c \in Conns :
        (conns[c].pc = "gen" /\ conns'[c].pc = "insert")
        => LET name == conns'[c].new_filename
               token == Stem(name)
           IN /\ name \notin DOMAIN storage
              /\ name \in DOMAIN storage'
              /\ name = token \o <<".">> \o conns[c].ext
              /\ 11 <= Len(token) /\ Len(token) <= 22
              /\ \A i \in DOMAIN token : token[i] \in UrlSafeChars]_vars

\* two files of one extension and token length exist, the later named
\* while the earlier occupied storage
C10_Witness ==
    \E c \in Conns :
        /\ conns[c].pc = "insert"
        /\ \E other \in DOMAIN storage :
              /\ other # conns[c].new_filename
              /\ Suffix(other) = Suffix(conns[c].new_filename)
              /\ Len(other) = Len(conns[c].new_filename)


\* C8: in a limiter admitting n calls per window, a call made in a window
\* in which n calls were already made returns the fallback value without
\* invoking the wrapped function, and a call made once the window length
\* has passed since the window start resets the counter, invokes the
\* wrapped function and returns its result.
C8_LimitAndReset ==
    last_call # None
    => LET call == Val(last_call)
       IN /\ (call.at - call.window_start < period /\ call.before >= max_count)
                => (~ call.invoked /\ call.value = DEFAULT_RETURN)
          /\ call.at - call.window_start >= period
                => /\ call.invoked /\ call.value = F_RESULT
                   /\ call.counted = 1
                   /\ last_reset >= call.at

\* the call after the limit was refused, and a later call in a new window
C8_Witness ==
    /\ last_call # None
    /\ Val(last_call).invoked
    /\ Val(last_call).before > max_count
    /\ Val(last_call).at - Val(last_call).window_start >= period
    /\ Val(last_call).window_start > 0

\* C9: once more than max_requests retrievals have arrived within a window,
\* a further retrieval is answered with the fallback payload.
C9_RetrievalIsLimited ==
    (last_get # None /\ get_calls > GET_MAX_COUNT)
    => GetOf.resp.body = RATELIMITED_PNG

\* C11: every upload request ends with exactly one of the responses 200
\* with the URL bytes, 400 or 401; no exception leaves the handler and no
\* other status is answered.
C11_OnlyListedResponses ==
    \A c \in Conns :
        Answered(conns[c])
        => /\ RespOf(conns[c]).error = ""
           /\ RespOf(conns[c]).status \in {200, 400, 401}
           /\ RespOf(conns[c]).status = 200 => HasPrefix(RespOf(conns[c]).body, URL_PREFIX)

\* the upload on connection c has written its body to storage
Wrote(c) == conns[c].pc \in {"insert", "done"} /\ conns[c].new_filename # <<>>

\* C12: under every interleaving of in-flight uploads, no two accepted
\* uploads are stored under the same generated name, and no step changes or
\* removes a blob that storage already holds: every blob is created once,
\* by the upload that generated its name, and never overwritten.
C12_CreatedOnceNeverOverwritten ==
    /\ [](\A c, d \in Conns :
            (c # d /\ Wrote(c) /\ Wrote(d))
            => conns[c].new_filename # conns[d].new_filename)
    /\ [](\A c \in Conns :
            Wrote(c) => /\ conns[c].new_filename \in DOMAIN storage
                        /\ storage[conns[c].new_filename] = Val(BodyOf(conns[c])))
    /\ [][/\ \A name \in DOMAIN storage :
                name \in DOMAIN storage' /\ storage'[name] = storage[name]
          /\ Cardinality(DOMAIN storage' \ DOMAIN storage) <= 1
          /\ \A name \in DOMAIN storage' \ DOMAIN storage :
                \E c \in Conns : /\ conns[c].pc = "gen" /\ conns'[c].pc = "insert"
                                 /\ conns'[c].new_filename = name]_vars

\* two uploads suspended at the ledger insert together, their names of one
\* length and one extension
C12_Witness ==
    \E c, d \in Conns :
        /\ c # d
        /\ conns[c].pc = "insert" /\ conns[d].pc = "insert"
        /\ Len(conns[c].new_filename) = Len(conns[d].new_filename)
        /\ Suffix(conns[c].new_filename) = Suffix(conns[d].new_filename)
        /\ BodyOf(conns[c]) # BodyOf(conns[d])

\* the three required headers are present and the User-Agent is ShareX's
RequiredHeadersOk(h) ==
    /\ {"User-Agent", "Token", "Content-Type"} \subseteq DOMAIN h
    /\ ShareXAgent(h)

\* the declared Content-Length is an integer outside [64, 2^30)
SizeOutOfRange(h) ==
    /\ "Content-Length" \in DOMAIN h
    /\ ParseInt(h["Content-Length"]) # None
    /\ ~ SizeInRange(h)

\* the step issues connection c's auth query
QueriesAuth(c) == conns[c].pc # "auth" /\ conns'[c].pc = "auth"

\* valid headers, a body and a declared size in range
PassesSizeBound(cn) ==
    /\ RequiredHeadersOk(HeadersOf(cn))
    /\ BodyOf(cn) # None
    /\ SizeInRange(HeadersOf(cn))

\* C13 (as amended): the stages run in the order header validation, body
\* presence, size bound, authentication, type registration, signature
\* predicate, and the first failing stage decides the status. Invalid
\* headers, an absent body or a declared size outside [64, 2^30) are
\* answered 400 and the auth query is issued only for requests that pass
\* all three; a request that passes them with no matching active user is
\* answered 401 even if its type is unregistered or its body fails the
\* predicate, and one with an active user and such a type or body 400
\* (the auth query succeeding).
C13_StageOrder ==
    /\ [](\A c \in Conns :
            Answered(conns[c])
            => /\ (\/ ~ RequiredHeadersOk(HeadersOf(conns[c]))
                   \/ BodyOf(conns[c]) = None
                   \/ SizeOutOfRange(HeadersOf(conns[c])))
                    => RespOf(conns[c]).status = 400
               /\ (PassesSizeBound(conns[c]) /\ ~ DbFailed(conns[c]))
                    => IF ~ TokenIsActive(HeadersOf(conns[c])["Token"])
                       THEN RespOf(conns[c]).status = 401
                       ELSE (Unregistered(conns[c]) \/ BodyFailsType(conns[c]))
                            => RespOf(conns[c]).status = 400)
    /\ [][\A c \in Conns : QueriesAuth(c) => PassesSizeBound(conns'[c])]_vars

\* a request of an unknown token, declared as an unregistered type, was
\* answered 401
C13_Witness ==
    \E c \in Conns :
        /\ Answered(conns[c]) /\ PassesSizeBound(conns[c])
        /\ HeadersOf(conns[c])["Token"] = "t-none"
        /\ Unregistered(conns[c])
        /\ RespOf(conns[c]).status = 401

\* C13 (as stated): an answered request with valid headers and a declared
\* size in range but no matching active user is answered 401, and one with
\* invalid headers or a declared size out of range 400.
C13_Original ==
    \A c \in Conns :
        (Answered(conns[c]) /\ RespOf(conns[c]).error = "")
        => /\ (~ RequiredHeadersOk(HeadersOf(conns[c])) \/ SizeOutOfRange(HeadersOf(conns[c])))
                => RespOf(conns[c]).status = 400
           /\ (/\ RequiredHeadersOk(HeadersOf(conns[c]))
               /\ SizeInRange(HeadersOf(conns[c]))
               /\ ~ TokenIsActive(HeadersOf(conns[c])["Token"]))
                => RespOf(conns[c]).status = 401

\* the part of a name after its last dot
ExtensionOf(name) == SubSeq(name, LastDot(name) + 1, Len(name))

\* the registered rules whose extension is e
RulesOf(e) == { i \in DOMAIN SUPPORTED_FILES : SUPPORTED_FILES[i].extension = e }

\* C14: every blob in storage whose name has extension e satisfies the
\* signature predicate of the one registered rule whose extension is e,
\* whoever uploaded it.
C14_StoredBlobsMatchExtension ==
    \A name \in DOMAIN storage :
        /\ Cardinality(RulesOf(ExtensionOf(name))) = 1
        /\ \A i \in RulesOf(ExtensionOf(name)) :
              condition(SUPPORTED_FILES[i].mime_type, storage[name])

\* a blob uploaded by the user holding DEVELOPMENT next to another one
C14_Witness ==
    /\ Cardinality(DOMAIN storage) = 2
    /\ \E name \in DOMAIN returned :
          /\ name \in DOMAIN storage
          /\ \E u \in USERS : /\ u.id = returned[name].user_id
                              /\ HasPriv(u.priv, DEVELOPMENT)

\* the users whose privilege bitset has bit 0 (ACTIVE) set
ActiveUsers == { u \in USERS : (u.priv % 2) = 1 }

\* connection c's request carries the token of a user without the ACTIVE bit
FromInactiveUser(cn) ==
    /\ cn.req # None
    /\ "Token" \in DOMAIN HeadersOf(cn)
    /\ \E u \in USERS \ ActiveUsers : u.token = HeadersOf(cn)["Token"]

\* connection c's request carries the token of the ACTIVE user u
FromActiveUser(cn, u) ==
    /\ cn.req # None
    /\ "Token" \in DOMAIN HeadersOf(cn)
    /\ u \in ActiveUsers
    /\ u.token = HeadersOf(cn)["Token"]

\* C15: every blob in storage and every ledger row was produced by a
\* request whose Token matched a user with the ACTIVE bit set, the row
\* carrying that user's id; a request with the token of a user holding
\* MANAGEMENT and/or DEVELOPMENT but not ACTIVE is never accepted, is
\* answered 401 when it reaches the auth query and the query succeeds, and
\* no step of it changes storage or the ledger.
C15_OnlyActiveUsersUpload ==
    /\ [](\A name \in DOMAIN storage :
            \E c \in Conns, u \in ActiveUsers :
                /\ FromActiveUser(conns[c], u)
                /\ Wrote(c) /\ conns[c].new_filename = name)
    /\ [](\A i \in DOMAIN ledger :
            \E c \in Conns, u \in ActiveUsers :
                /\ FromActiveUser(conns[c], u)
                /\ Wrote(c) /\ conns[c].new_filename = ledger[i].name
                /\ ledger[i].user_id = u.id)
    /\ [](\A c \in Conns :
            (Answered(conns[c]) /\ FromInactiveUser(conns[c]))
            => /\ RespOf(conns[c]).status # 200
               /\ (PassesSizeBound(conns[c]) /\ ~ DbFailed(conns[c]))
                    => RespOf(conns[c]).status = 401)
    /\ [][\A c \in Conns :
            (Moves(c) /\ FromInactiveUser(conns'[c]))
            => (storage' = storage /\ ledger' = ledger)]_vars

\* the user with MANAGEMENT and DEVELOPMENT but not ACTIVE was answered 401
\* while an ACTIVE user's upload is stored and recorded
C15_Witness ==
    /\ storage # EmptyFn
    /\ ledger # <<>>
    /\ \E c \in Conns :
          /\ Answered(conns[c]) /\ FromInactiveUser(conns[c])
          /\ BodyMatchesType(conns[c])
          /\ RespOf(conns[c]).status = 401

\* C16: each ledger row's name is a key of storage and no name appears in
\* two ledger rows, under every interleaving of uploads and every failure
\* of the ledger insert; a blob may exist without a ledger row.
C16_LedgerImpliesBlob ==
    /\ \A i \in DOMAIN ledger : ledger[i].name \in DOMAIN storage
    /\ \A i, j \in DOMAIN ledger : ledger[i].name = ledger[j].name => i = j

\* a recorded blob next to one whose ledger insert failed
C16_Witness ==
    /\ Len(ledger) = 1
    /\ \E c \in Conns :
          /\ Answered(conns[c]) /\ Wrote(c) /\ DbFailed(conns[c])
          /\ conns[c].new_filename \in DOMAIN storage
          /\ \A i \in DOMAIN ledger : ledger[i].name # conns[c].new_filename

\* the upload on connection c wrote its blob and its ledger insert failed
InsertFailed(c) ==
    /\ Answered(conns[c]) /\ Wrote(c)
    /\ \A i \in DOMAIN ledger : ledger[i].name # conns[c].new_filename

\* C17: when the ledger insert fails after the blob has been written, the
\* handler handles the failure by logging it (no exception leaves it), the
\* blob stays in storage under its generated name and no ledger row exists
\* for it.
C17_InsertFailureLogged ==
    \A c \in Conns :
        InsertFailed(c)
        => /\ conns[c].logged
           /\ RespOf(conns[c]).error = ""
           /\ conns[c].new_filename \in DOMAIN storage

\* the step is a call of the wrapper
IsCall == calls_made' = calls_made + 1

\* the call of this step reset the counter
Resets == last_reset' # last_reset

\* C18: for the coroutine variant, under every interleaving of calls with
\* invocations of f still in flight, f is started at most max_count times
\* between two consecutive counter resets; every call increments the
\* counter, a rate limited one included, and a rate limited call starts no
\* invocation.
C18_BoundedStartsPerWindow ==
    /\ [](is_coroutine => started <= max_count)
    /\ [][(is_coroutine /\ IsCall)
          => /\ num_calls' = (IF Resets THEN 0 ELSE num_calls) + 1
             /\ IF Val(last_call').invoked
                THEN /\ in_flight' = in_flight + 1
                     /\ started' = (IF Resets THEN 0 ELSE started) + 1
                ELSE /\ in_flight' = in_flight
                     /\ started' = (IF Resets THEN 0 ELSE started)
                     /\ num_calls' > max_count]_vars

\* more invocations in flight than the limit, started in two windows, the
\* current window full and a further call refused
C18_Witness ==
    /\ is_coroutine
    /\ last_reset > 0
    /\ started = max_count
    /\ in_flight > max_count
    /\ last_call # None /\ ~ Val(last_call).invoked

\* the number of invocations of f at a time in [from, from + length)
InvokedWithin(from, length) ==
    Cardinality({ i \in DOMAIN invoked_at :
                    from <= invoked_at[i] /\ invoked_at[i] < from + length })

\* C19 (as amended): the limiter counts in fixed windows that start at the
\* counter resets: f is invoked at most max_count times from one reset to
\* the next, and so at most 2 * max_count times in an interval of the
\* window length, wherever the interval starts.
C19_FixedWindow ==
    /\ InvokedWithin(last_reset, MaxClock + 1) <= max_count
    /\ \A t \in 0..MaxClock : InvokedWithin(t, period) <= 2 * max_count

\* an interval shorter than the window holds 2 * max_count invocations
C19_Witness ==
    \E t \in 0..MaxClock :
        /\ InvokedWithin(t, period) = 2 * max_count
        /\ last_reset > t /\ last_reset < t + period

\* C19 (as stated): in every interval of the window length, wherever it
\* starts, f is invoked at most max_count times.
C19_Original ==
    \A t \in 0..MaxClock : InvokedWithin(t, period) <= max_count

\* some name of an admissible length is free for the extension
FreeNameExists(ext) ==
    \E n \in 8..16 : \E bytes \in token_bytes(n) :
        (token_urlsafe(bytes) \o <<".">> \o ext) \notin DOMAIN storage

\* C20: under fair random draws, an upload in its naming loop leaves the
\* loop with an unoccupied name whenever storage leaves a name of some
\* admissible length (11 to 22 characters) free for its extension.
C20_NamingTerminates ==
    \A c \in Conns :
        (conns[c].pc = "gen" /\ FreeNameExists(conns[c].ext)) ~> (conns[c].pc # "gen")

====
